---- MODULE Spec2Model ----
(***************************************************************************)
(* The document-processing pipeline of DocumentProcessingCdkStack: the     *)
(* Step Functions state machine 'DocumentProcessingStateMachine', the      *)
(* Lambda tasks it invokes and the payload bucket used for large payloads. *)
(*                                                                         *)
(* JSON values are functions from field names to values.  A field that is  *)
(* absent from a JSON object is absent from the function's DOMAIN.  A      *)
(* string body is the record [head, len]: its first characters (UTF-16     *)
(* code units) and its length in characters.                               *)
(*                                                                         *)
(* Time passes only while a Lambda invocation is in flight; Pass, Choice,  *)
(* Succeed and Fail states take no time. Durations are in minutes.         *)
(***************************************************************************)
EXTENDS Integers, Sequences, FiniteSets, TLC

\* ---------------------------------------------------------------- bounds
\* Body lengths of the two scenarios of the specification.
SmallLen == 500
LargeLen == 300000

\* ------------------------------------------------------- program constants
\* 200KB in characters, the number the size checks are meant to compare with.
ThresholdChars == 204800
\* The literal '204800' the Choice conditions compare $.body with,
\* as UTF-16 code units.
ThresholdString == <<50, 48, 52, 56, 48, 48>>

TextractTimeout == 15
MetadataTimeout == 10
ImageDescriptionTimeout == 15
BedrockTimeout == 10
PayloadUtilsTimeout == 2
RetrievePayloadTimeout == 2
StateMachineTimeout == 30

\* LambdaInvoke retries a Lambda service exception: retryOnServiceExceptions
\* is not set to false, so each task has Retry with MaxAttempts 6.
RetryMaxAttempts == 6

ProcessedBucket == "processed-bucket"
PayloadBucket == "payload-bucket"
DocumentBucket == "document-bucket"

Execs == {1, 2}

StageWorkers == {"Extractor", "MetadataExtractor", "Captioner", "Ingestor"}
StoreWorkers == {"PayloadStore.put", "PayloadStore.get"}

\* ------------------------------------------------------------ JSON helpers
EmptyObj == [f \in {} |-> 0]

Has(o, f) == f \in DOMAIN o

RECURSIVE PathExists(_, _)
PathExists(o, p) ==
  IF p = <<>> THEN TRUE
  ELSE Head(p) \in DOMAIN o /\ PathExists(o[Head(p)], Tail(p))

\* Step Functions string comparison: lexicographic, by code unit; a proper
\* prefix is smaller than the longer string.
RECURSIVE GreaterFrom(_, _, _)
GreaterFrom(b, t, i) ==
  IF i > Len(t) THEN b.len > Len(t)
  ELSE IF i > b.len THEN FALSE
  ELSE IF b.head[i] # t[i] THEN b.head[i] > t[i]
  ELSE GreaterFrom(b, t, i + 1)

StringGreaterThan(b, t) == GreaterFrom(b, t, 1)

\* Serialized size of a JSON value handed to a Lambda: a body counts its
\* characters, an S3 key, a bucket name or an id at most 1024 characters,
\* a number or a fixed word at most 32.
RECURSIVE SizeOf(_)
FieldSize(f, v) ==
  CASE f = "body" -> v.len
    [] f \in {"metadata", "payload_reference", "Payload", "payload"} -> SizeOf(v)
    [] f \in {"statusCode", "original_status_code", "StatusCode", "operation"} -> 32
    [] OTHER -> 1024

RECURSIVE SumSizes(_, _)
SumSizes(o, fs) ==
  IF fs = {} THEN 0
  ELSE LET f == CHOOSE g \in fs : TRUE
       IN FieldSize(f, o[f]) + SumSizes(o, fs \ {f})

SizeOf(o) == SumSizes(o, DOMAIN o)

RECURSIVE CarriesBody(_)
CarriesBody(o) ==
  \E f \in DOMAIN o :
     \/ f = "body"
     \/ f \in {"metadata", "payload_reference", "Payload", "payload"} /\ CarriesBody(o[f])

\* ------------------------------------------------- the pipeline definition
TaskStates ==
  {"ProcessDocumentWithTextract", "StoreTextractResult", "ExtractAndStoreMetadata",
   "StoreMetadataResult", "RetrievePayload", "GenerateImageDescriptionsLarge",
   "GenerateImageDescriptionsNormal", "AddToBedrockKnowledgeBase"}

PassStates ==
  {"ExtractProcessedKeyLarge", "ExtractProcessedKey", "ExtractMetadataForBedrockLarge",
   "ExtractMetadataForBedrock", "MapImageDescriptionFieldsLarge",
   "MapImageDescriptionFieldsNormal"}

ChoiceStates ==
  {"CheckTextractProcessing", "CheckTextractPayloadSize", "CheckMetadataExtraction",
   "CheckMetadataPayloadSize", "CheckBedrockIntegration"}

successState == "ProcessingSucceeded"
failureState == "ProcessingFailed"

\* The Lambda function a task state invokes, by the role it plays.
TaskWorker(s) ==
  CASE s = "ProcessDocumentWithTextract" -> "Extractor"
    [] s = "ExtractAndStoreMetadata" -> "MetadataExtractor"
    [] s \in {"GenerateImageDescriptionsLarge", "GenerateImageDescriptionsNormal"} -> "Captioner"
    [] s = "AddToBedrockKnowledgeBase" -> "Ingestor"
    [] s \in {"StoreTextractResult", "StoreMetadataResult"} -> "PayloadStore.put"
    [] s = "RetrievePayload" -> "PayloadStore.get"

\* The configured timeout of the Lambda function a task state invokes.
TaskTimeout(s) ==
  CASE s = "ProcessDocumentWithTextract" -> TextractTimeout
    [] s = "ExtractAndStoreMetadata" -> MetadataTimeout
    [] s \in {"GenerateImageDescriptionsLarge", "GenerateImageDescriptionsNormal"} -> ImageDescriptionTimeout
    [] s = "AddToBedrockKnowledgeBase" -> BedrockTimeout
    [] s \in {"StoreTextractResult", "StoreMetadataResult"} -> PayloadUtilsTimeout
    [] s = "RetrievePayload" -> RetrievePayloadTimeout

\* The JSON paths a state's parameters (Pass) or payload (task) read from the
\* state's input. A path that does not resolve fails the execution.
RequiredPaths(s) ==
  CASE s = "ExtractProcessedKeyLarge" ->
         {<<"payload_reference", "key">>, <<"original_status_code">>}
    [] s = "ExtractProcessedKey" -> {<<"statusCode">>}
    [] s = "ExtractAndStoreMetadata" -> {<<"processed_bucket">>, <<"processed_key">>}
    [] s \in {"GenerateImageDescriptionsLarge", "GenerateImageDescriptionsNormal"} ->
         {<<"metadata", "document_id">>, <<"metadata", "id">>}
    [] s = "ExtractMetadataForBedrockLarge" ->
         {<<"processed_bucket">>, <<"processed_key">>, <<"document_id">>, <<"metadata_id">>}
    [] s = "ExtractMetadataForBedrock" ->
         {<<"metadata", "processed_bucket">>, <<"metadata", "processed_key">>,
          <<"metadata", "document_id">>}
    [] s \in {"MapImageDescriptionFieldsLarge", "MapImageDescriptionFieldsNormal"} ->
         {<<"processed_bucket">>, <<"processed_key">>, <<"document_id">>, <<"statusCode">>}
    [] OTHER -> {}

ParametersResolve(s, in) == \A p \in RequiredPaths(s) : PathExists(in, p)

storeResultPayload(in) == [operation |-> "store", payload |-> in]

extractProcessedKeyLargeState(in) ==
  [processed_bucket |-> ProcessedBucket,
   processed_key |-> in.payload_reference.key,
   original_status_code |-> in.original_status_code]

extractProcessedKeyState(in) ==
  [processed_bucket |-> ProcessedBucket,
   processed_key |-> "dummy-key",
   original_status_code |-> in.statusCode]

metadataTask(in) ==
  [processed_bucket |-> in.processed_bucket, processed_key |-> in.processed_key]

createImageDescriptionTask(in) ==
  [document_id |-> in.metadata.document_id, metadata_id |-> in.metadata.id]

extractMetadataForBedrockLargeState(in) ==
  [processed_bucket |-> in.processed_bucket,
   processed_key |-> in.processed_key,
   document_id |-> in.document_id,
   metadata |-> [document_id |-> in.document_id, id |-> in.metadata_id]]

extractMetadataForBedrockState(in) ==
  [processed_bucket |-> in.metadata.processed_bucket,
   processed_key |-> in.metadata.processed_key,
   document_id |-> in.metadata.document_id]

\* Variant: the Pass state adds the operation to its whole input.
MapImageDescriptionFieldsWhole(in) ==
  in @@ [operation |-> "add_document_to_knowledge_base"]

MapImageDescriptionFields(in) ==
  [processed_bucket |-> in.processed_bucket,
   processed_key |-> in.processed_key,
   document_id |-> in.document_id,
   statusCode |-> in.statusCode,
   operation |-> "add_document_to_knowledge_base"]

\* The result of a Pass state: its parameters evaluated on its input.
PassResult(s, in) ==
  CASE s = "ExtractProcessedKeyLarge" -> extractProcessedKeyLargeState(in)
    [] s = "ExtractProcessedKey" -> extractProcessedKeyState(in)
    [] s = "ExtractMetadataForBedrockLarge" -> extractMetadataForBedrockLargeState(in)
    [] s = "ExtractMetadataForBedrock" -> extractMetadataForBedrockState(in)
    [] s \in {"MapImageDescriptionFieldsLarge", "MapImageDescriptionFieldsNormal"} ->
         MapImageDescriptionFields(in)

\* The payload a task state sends to its Lambda function. A task without a
\* payload property sends its whole input.
TaskInput(s, in) ==
  CASE s \in {"StoreTextractResult", "StoreMetadataResult"} -> storeResultPayload(in)
    [] s = "ExtractAndStoreMetadata" -> metadataTask(in)
    [] s \in {"GenerateImageDescriptionsLarge", "GenerateImageDescriptionsNormal"} ->
         createImageDescriptionTask(in)
    [] OTHER -> in

\* The output of a task state: outputPath '$.Payload' keeps the function's
\* result; bedrockTask sets no outputPath and keeps the invoke envelope.
TaskOutput(s, out) ==
  IF s = "AddToBedrockKnowledgeBase"
  THEN [Payload |-> out, StatusCode |-> 200]
  ELSE out

\* Condition.and(isPresent('$.body'), stringGreaterThan('$.body', '204800'))
PayloadTooLarge(in) ==
  Has(in, "body") /\ StringGreaterThan(in.body, ThresholdString)

\* The variable a Choice state compares; isPresent guards '$.body'.
ChoiceVariable(s) ==
  CASE s \in {"CheckTextractProcessing", "CheckMetadataExtraction"} -> {<<"statusCode">>}
    [] s = "CheckBedrockIntegration" -> {<<"Payload", "statusCode">>}
    [] OTHER -> {}

ChoiceResolves(s, in) == \A p \in ChoiceVariable(s) : PathExists(in, p)

\* Variant: the extraction status is not checked.
CheckTextractProcessingAlways(in) == "CheckTextractPayloadSize"

CheckTextractProcessing(in) ==
  IF in.statusCode = 200 THEN "CheckTextractPayloadSize" ELSE failureState

CheckTextractPayloadSize(in) ==
  IF PayloadTooLarge(in) THEN "StoreTextractResult" ELSE "ExtractProcessedKey"

\* Variant: a failed metadata extraction is run again.
CheckMetadataExtractionAgain(in) ==
  IF in.statusCode = 200 THEN "CheckMetadataPayloadSize" ELSE "ExtractAndStoreMetadata"

CheckMetadataExtraction(in) ==
  IF in.statusCode = 200 THEN "CheckMetadataPayloadSize" ELSE failureState

CheckMetadataPayloadSize(in) ==
  IF PayloadTooLarge(in) THEN "StoreMetadataResult" ELSE "ExtractMetadataForBedrock"

\* Variant: the check reads the status of the invoke envelope.
CheckBedrockIntegrationEnvelope(in) ==
  IF in.StatusCode = 200 THEN successState ELSE failureState

CheckBedrockIntegration(in) ==
  IF in.Payload.statusCode = 200 THEN successState ELSE failureState

ChoiceNext(s, in) ==
  CASE s = "CheckTextractProcessing" -> CheckTextractProcessing(in)
    [] s = "CheckTextractPayloadSize" -> CheckTextractPayloadSize(in)
    [] s = "CheckMetadataExtraction" -> CheckMetadataExtraction(in)
    [] s = "CheckMetadataPayloadSize" -> CheckMetadataPayloadSize(in)
    [] s = "CheckBedrockIntegration" -> CheckBedrockIntegration(in)

\* Variant: the large branch goes from the metadata fields to the Ingestor.
definitionSkipCaptioner(s) ==
  CASE s = "ProcessDocumentWithTextract" -> "CheckTextractProcessing"
    [] s = "StoreTextractResult" -> "ExtractProcessedKeyLarge"
    [] s = "ExtractProcessedKeyLarge" -> "ExtractAndStoreMetadata"
    [] s = "ExtractProcessedKey" -> "ExtractAndStoreMetadata"
    [] s = "ExtractAndStoreMetadata" -> "CheckMetadataExtraction"
    [] s = "StoreMetadataResult" -> "RetrievePayload"
    [] s = "RetrievePayload" -> "ExtractMetadataForBedrockLarge"
    [] s = "ExtractMetadataForBedrockLarge" -> "AddToBedrockKnowledgeBase"
    [] s = "GenerateImageDescriptionsLarge" -> "MapImageDescriptionFieldsLarge"
    [] s = "MapImageDescriptionFieldsLarge" -> "AddToBedrockKnowledgeBase"
    [] s = "ExtractMetadataForBedrock" -> "GenerateImageDescriptionsNormal"
    [] s = "GenerateImageDescriptionsNormal" -> "MapImageDescriptionFieldsNormal"
    [] s = "MapImageDescriptionFieldsNormal" -> "AddToBedrockKnowledgeBase"
    [] s = "AddToBedrockKnowledgeBase" -> "CheckBedrockIntegration"

\* The .next() wiring of the task and Pass states.
definition(s) ==
  CASE s = "ProcessDocumentWithTextract" -> "CheckTextractProcessing"
    [] s = "StoreTextractResult" -> "ExtractProcessedKeyLarge"
    [] s = "ExtractProcessedKeyLarge" -> "ExtractAndStoreMetadata"
    [] s = "ExtractProcessedKey" -> "ExtractAndStoreMetadata"
    [] s = "ExtractAndStoreMetadata" -> "CheckMetadataExtraction"
    [] s = "StoreMetadataResult" -> "RetrievePayload"
    [] s = "RetrievePayload" -> "ExtractMetadataForBedrockLarge"
    [] s = "ExtractMetadataForBedrockLarge" -> "GenerateImageDescriptionsLarge"
    [] s = "GenerateImageDescriptionsLarge" -> "MapImageDescriptionFieldsLarge"
    [] s = "MapImageDescriptionFieldsLarge" -> "AddToBedrockKnowledgeBase"
    [] s = "ExtractMetadataForBedrock" -> "GenerateImageDescriptionsNormal"
    [] s = "GenerateImageDescriptionsNormal" -> "MapImageDescriptionFieldsNormal"
    [] s = "MapImageDescriptionFieldsNormal" -> "AddToBedrockKnowledgeBase"
    [] s = "AddToBedrockKnowledgeBase" -> "CheckBedrockIntegration"

StartAt == "ProcessDocumentWithTextract"

\* ------------------------------------------------------ the Lambda functions
\* The handlers of the stage workers are opaque: each returns one of a set of
\* results. DocClass names the kind of document an execution processes.
Body(h, n) == [head |-> h, len |-> n]
Brace == <<123>>
Quote == <<34>>
BodyLens == {Len(ThresholdString), SmallLen, ThresholdChars, ThresholdChars + 1, LargeLen}
Bodies == {b \in [head : {Brace, Quote, ThresholdString}, len : BodyLens] :
             b.len >= Len(b.head)}

DocKey(e) == "doc-" \o ToString(e) \o ".pdf"
DocId(e) == "doc-" \o ToString(e)

MetaFull(e) ==
  [processed_bucket |-> ProcessedBucket,
   processed_key |-> "processed/" \o DocId(e) \o ".json",
   document_id |-> DocId(e),
   id |-> "meta-" \o ToString(e)]

MetaNoId(e) ==
  [processed_bucket |-> ProcessedBucket,
   processed_key |-> "processed/" \o DocId(e) \o ".json",
   document_id |-> DocId(e)]

\* The key under which the Extractor writes the processed document.
ProcessedKey(e) == "processed/" \o DocId(e) \o ".json"

\* A successful result of the Extractor names the key it has written.
ExtractorOutputs(e, d) ==
  CASE d = "large" ->
         {[statusCode |-> 200, body |-> Body(Brace, LargeLen),
           processed_key |-> ProcessedKey(e)]}
    [] d = "small" ->
         {[statusCode |-> 200, body |-> Body(Quote, SmallLen),
           processed_key |-> ProcessedKey(e)]}
    [] OTHER ->
         {[statusCode |-> 200, body |-> b, processed_key |-> ProcessedKey(e)] :
             b \in Bodies}
           \cup {[statusCode |-> 500, body |-> Body(Quote, SmallLen)],
                 [statusCode |-> 200],
                 [body |-> Body(Quote, SmallLen)]}

MetadataOutputs(e, d) ==
  CASE d = "large" ->
         {[statusCode |-> 200, body |-> Body(Brace, LargeLen), metadata |-> MetaFull(e)],
          [statusCode |-> 500, body |-> Body(Quote, SmallLen)]}
    [] d = "small" ->
         {[statusCode |-> 200, body |-> Body(Quote, SmallLen), metadata |-> MetaFull(e)],
          [statusCode |-> 500, body |-> Body(Quote, SmallLen)]}
    [] OTHER ->
         {[statusCode |-> 200, body |-> b, metadata |-> m] :
             b \in {Body(Quote, SmallLen), Body(Brace, SmallLen),
                    Body(Brace, LargeLen), Body(Quote, LargeLen)},
             m \in {MetaFull(e)}}
           \cup {[statusCode |-> 200, body |-> b, metadata |-> MetaNoId(e)] :
                   b \in {Body(Quote, SmallLen), Body(Brace, LargeLen)}}
           \cup {[statusCode |-> 200, body |-> Body(Brace, LargeLen)],
                 [statusCode |-> 200, metadata |-> MetaFull(e)],
                 [statusCode |-> 500, body |-> Body(Quote, SmallLen)],
                 [body |-> Body(Quote, SmallLen)]}

CaptionerFields(e) ==
  [processed_bucket |-> ProcessedBucket,
   processed_key |-> "processed/" \o DocId(e) \o ".json",
   document_id |-> DocId(e)]

CaptionerOutputs(e, d) ==
  IF d \in {"large", "small"}
  THEN {CaptionerFields(e) @@ [statusCode |-> c] : c \in {200, 500}}
  ELSE {CaptionerFields(e) @@ [statusCode |-> c] : c \in {200, 500}}
         \cup {CaptionerFields(e) @@ [statusCode |-> 200, body |-> Body(Brace, LargeLen)],
               CaptionerFields(e),
               [statusCode |-> 200, document_id |-> DocId(e)]}

IngestorOutputs(e, d) ==
  IF d \in {"large", "small"}
  THEN {[statusCode |-> 200], [statusCode |-> 500]}
  ELSE {[statusCode |-> 200], [statusCode |-> 500], [body |-> Body(Quote, SmallLen)]}

WorkerOutputs(w, e, d) ==
  CASE w = "Extractor" -> ExtractorOutputs(e, d)
    [] w = "MetadataExtractor" -> MetadataOutputs(e, d)
    [] w = "Captioner" -> CaptionerOutputs(e, d)
    [] w = "Ingestor" -> IngestorOutputs(e, d)

\* payload-utils 'store': the object is written under a key of the run and
\* the state, and the result names it and carries the status code on.
PayloadKey(e, s) == "payloads/" \o ToString(e) \o "/" \o s

PayloadUtilsStore(e, s, event) ==
  [payload_reference |-> [bucket |-> PayloadBucket, key |-> PayloadKey(e, s)],
   original_status_code |-> event.payload.statusCode]

\* retrieve-payload: reads the stored metadata result and returns its
\* metadata fields at the top level.
RetrievedFields ==
  [processed_bucket |-> "processed_bucket", processed_key |-> "processed_key",
   document_id |-> "document_id", metadata_id |-> "id"]

RetrievePayload(p) ==
  LET m == IF Has(p, "metadata") THEN p.metadata ELSE EmptyObj
  IN [f \in {g \in DOMAIN RetrievedFields : RetrievedFields[g] \in DOMAIN m}
        |-> m[RetrievedFields[f]]]

\* ------------------------------------------------------------------ state
VARIABLES
  doc,          \* doc[e]: the kind of document execution e is started for
  status,       \* status[e]: NotStarted, Running, Succeeded, Failed, Cancelled
  error,        \* error[e]: the error name of a failed execution
  pc,           \* pc[e]: the state of the state machine execution e is in
  ctx,          \* ctx[e]: the JSON input of that state
  inflight,     \* inflight[e]: the Lambda invocations that have not returned
  elapsed,      \* elapsed[e]: minutes since the execution started
  log,          \* log[e]: states entered, invocations and their results
  payloadStore, \* the payload bucket: key -> stored payload
  retries,      \* retries[e]: retries made by the task execution e is running
  trig,         \* the trigger function: the event delivered and what it started
  sh,           \* a run of create-inference-profile.sh and the account it acts on
  cr            \* an invocation of CreateInferenceProfileFunction

vars == <<doc, status, error, pc, ctx, inflight, elapsed, log, payloadStore, retries,
          trig, sh, cr>>

\* The variables of the pipeline, and those of the programs around it.
pipelineVars ==
  <<doc, status, error, pc, ctx, inflight, elapsed, log, payloadStore, retries>>

\* A program that is not run.
Off == [pc |-> "off"]

Terminal == {"Succeeded", "Failed", "Cancelled"}

Running(e) == status[e] = "Running"

InitExecs(d) ==
  /\ doc = d
  /\ status = [e \in Execs |-> "NotStarted"]
  /\ error = [e \in Execs |-> "none"]
  /\ pc = [e \in Execs |-> "none"]
  /\ ctx = [e \in Execs |-> EmptyObj]
  /\ inflight = [e \in Execs |-> {}]
  /\ elapsed = [e \in Execs |-> 0]
  /\ log = [e \in Execs |-> <<>>]
  /\ payloadStore = EmptyObj
  /\ retries = [e \in Execs |-> 0]

InitWith(d) ==
  /\ InitExecs(d)
  /\ trig = Off
  /\ sh = Off
  /\ cr = Off

\* One document of any kind arrives.
Init == InitWith([e \in Execs |-> IF e = 1 THEN "any" ELSE "none"])

\* Two documents arrive: one with large stage outputs, one with small ones.
InitConc == InitWith([e \in Execs |-> IF e = 1 THEN "large" ELSE "small"])

Entered(s) == [ev |-> "enter", state |-> s]

\* The invocation of the task state execution e is in has failed with err.
InvocationFailed(e, err) ==
  [ev |-> "fail", worker |-> TaskWorker(pc[e]), state |-> pc[e], error |-> err]

\* The execution ends in failure with error name err.
FailWith(e, err) ==
  /\ status' = [status EXCEPT ![e] = "Failed"]
  /\ error' = [error EXCEPT ![e] = err]

\* Variant: the input of the next state is kept in one place for all runs.
GoToShared(e, s, c) ==
  /\ pc' = [pc EXCEPT ![e] = s]
  /\ ctx' = [x \in Execs |-> c]

\* The execution moves to state s with input c.
GoTo(e, s, c) ==
  /\ pc' = [pc EXCEPT ![e] = s]
  /\ ctx' = [ctx EXCEPT ![e] = c]

\* trigger-state-machine: start_execution with the document's bucket and key.
StartExecution(e) ==
  /\ doc[e] # "none"
  /\ status[e] = "NotStarted"
  /\ status' = [status EXCEPT ![e] = "Running"]
  /\ GoTo(e, StartAt, [bucket |-> DocumentBucket, key |-> DocKey(e)])
  /\ log' = [log EXCEPT ![e] = <<Entered(StartAt)>>]
  /\ UNCHANGED <<trig, sh, cr, doc, error, inflight, elapsed, payloadStore, retries>>

\* A task state may invoke its function when nothing of the execution is
\* in flight.
TaskReady(e) == inflight[e] = {}

\* LambdaInvoke: the payload is evaluated and the function is invoked.
InvokeLambda(e) ==
  /\ Running(e)
  /\ pc[e] \in TaskStates
  /\ TaskReady(e)
  /\ TaskWorker(pc[e]) \notin inflight[e]
  /\ ParametersResolve(pc[e], ctx[e])
  /\ inflight' = [inflight EXCEPT ![e] = @ \cup {TaskWorker(pc[e])}]
  /\ log' = [log EXCEPT ![e] = Append(@, [ev |-> "call", worker |-> TaskWorker(pc[e]),
                                           state |-> pc[e],
                                           input |-> TaskInput(pc[e], ctx[e])])]
  /\ UNCHANGED <<trig, sh, cr, doc, status, error, pc, ctx, elapsed, payloadStore, retries>>

\* Variant: only the results of the stage workers are recorded.
TaskSucceededStagesOnly(e, out, d) ==
  /\ elapsed[e] + d <= StateMachineTimeout
  /\ elapsed' = [elapsed EXCEPT ![e] = @ + d]
  /\ inflight' = [inflight EXCEPT ![e] = @ \ {TaskWorker(pc[e])}]
  /\ GoTo(e, definition(pc[e]), TaskOutput(pc[e], out))
  /\ log' = [log EXCEPT ![e] =
               @ \o (IF TaskWorker(pc[e]) \in StageWorkers
                     THEN <<[ev |-> "return", worker |-> TaskWorker(pc[e]),
                             state |-> pc[e], output |-> out]>>
                     ELSE <<>>)
                 \o <<Entered(definition(pc[e]))>>]
  /\ retries' = [retries EXCEPT ![e] = 0]

\* Variant: a result that took its function's whole timeout counts as a
\* failure of the stage.
TaskSucceededInTime(e, out, d) ==
  LET next == IF d > 0 THEN failureState ELSE definition(pc[e])
  IN /\ elapsed[e] + d <= StateMachineTimeout
     /\ elapsed' = [elapsed EXCEPT ![e] = @ + d]
     /\ inflight' = [inflight EXCEPT ![e] = @ \ {TaskWorker(pc[e])}]
     /\ GoTo(e, next, TaskOutput(pc[e], out))
     /\ log' = [log EXCEPT ![e] = @ \o <<[ev |-> "return", worker |-> TaskWorker(pc[e]),
                                          state |-> pc[e], output |-> out],
                                         Entered(next)>>]
     /\ retries' = [retries EXCEPT ![e] = 0]

\* The invocation of the task state the execution is in has returned `out`
\* after d minutes.
TaskSucceeded(e, out, d) ==
  /\ elapsed[e] + d <= StateMachineTimeout
  /\ elapsed' = [elapsed EXCEPT ![e] = @ + d]
  /\ inflight' = [inflight EXCEPT ![e] = @ \ {TaskWorker(pc[e])}]
  /\ GoTo(e, definition(pc[e]), TaskOutput(pc[e], out))
  /\ log' = [log EXCEPT ![e] = @ \o <<[ev |-> "return", worker |-> TaskWorker(pc[e]),
                                       state |-> pc[e], output |-> out],
                                      Entered(definition(pc[e]))>>]
  /\ retries' = [retries EXCEPT ![e] = 0]

Durations(s) == {0, TaskTimeout(s)}

\* A stage worker returns its result.
WorkerReturn(e) ==
  /\ Running(e)
  /\ pc[e] \in TaskStates
  /\ TaskWorker(pc[e]) \in StageWorkers
  /\ TaskWorker(pc[e]) \in inflight[e]
  /\ \E out \in WorkerOutputs(TaskWorker(pc[e]), e, doc[e]), d \in Durations(pc[e]) :
        TaskSucceeded(e, out, d)
  /\ UNCHANGED <<trig, sh, cr, doc, status, error, payloadStore>>

\* payload-utils 'store' writes the payload to the payload bucket.
PutObject(e) ==
  /\ Running(e)
  /\ pc[e] \in TaskStates
  /\ TaskWorker(pc[e]) = "PayloadStore.put"
  /\ "PayloadStore.put" \in inflight[e]
  /\ PayloadKey(e, pc[e]) \notin DOMAIN payloadStore
  /\ payloadStore' = (PayloadKey(e, pc[e]) :> ctx[e]) @@ payloadStore
  /\ UNCHANGED <<trig, sh, cr, doc, status, error, pc, ctx, inflight, elapsed, log, retries>>

\* Variant: the store function is invoked without waiting for its handler.
StoreCompletedAsync(e) == TRUE

\* The store task is a synchronous invocation: its result is available when
\* the handler has finished, that is when the object is written.
StoreCompleted(e) == PayloadKey(e, pc[e]) \in DOMAIN payloadStore

StoreReturn(e) ==
  /\ Running(e)
  /\ pc[e] \in TaskStates
  /\ TaskWorker(pc[e]) = "PayloadStore.put"
  /\ "PayloadStore.put" \in inflight[e]
  /\ StoreCompleted(e)
  /\ \E d \in Durations(pc[e]) :
        TaskSucceeded(e, PayloadUtilsStore(e, pc[e], TaskInput(pc[e], ctx[e])), d)
  /\ UNCHANGED <<trig, sh, cr, doc, status, error, payloadStore>>

\* retrieve-payload reads the object its input refers to.
RetrieveReturn(e) ==
  /\ Running(e)
  /\ pc[e] = "RetrievePayload"
  /\ "PayloadStore.get" \in inflight[e]
  /\ PathExists(ctx[e], <<"payload_reference", "key">>)
  /\ ctx[e].payload_reference.key \in DOMAIN payloadStore
  /\ \E d \in Durations(pc[e]) :
        TaskSucceeded(e, RetrievePayload(payloadStore[ctx[e].payload_reference.key]), d)
  /\ UNCHANGED <<trig, sh, cr, doc, status, error, payloadStore>>

\* The task of execution e has ended: its retry count is gone.
TaskEnded(e) ==
  /\ inflight' = [inflight EXCEPT ![e] = {}]
  /\ retries' = [retries EXCEPT ![e] = 0]

\* The invocation fails with a Lambda service exception: the task invokes
\* the function again, and after RetryMaxAttempts retries the execution fails.
ServiceException(e) ==
  /\ Running(e)
  /\ inflight[e] # {}
  /\ IF retries[e] < RetryMaxAttempts
     THEN /\ retries' = [retries EXCEPT ![e] = @ + 1]
          /\ UNCHANGED <<status, error, inflight, log>>
     ELSE /\ FailWith(e, "Lambda.ServiceException")
          /\ TaskEnded(e)
          /\ log' = [log EXCEPT ![e] = Append(@, InvocationFailed(e, "Lambda.ServiceException"))]
  /\ UNCHANGED <<trig, sh, cr, doc, pc, ctx, elapsed, payloadStore>>

\* Variant: the error of a function is caught and the next state runs on the
\* task's input.
WorkerErrorIgnored(e) ==
  /\ Running(e)
  /\ inflight[e] # {}
  /\ GoTo(e, definition(pc[e]), ctx[e])
  /\ TaskEnded(e)
  /\ log' = [log EXCEPT ![e] = @ \o <<InvocationFailed(e, "States.TaskFailed"),
                                      Entered(definition(pc[e]))>>]
  /\ UNCHANGED <<trig, sh, cr, doc, status, error, elapsed, payloadStore>>

\* The function raises an error; no task has a Catch, so the execution fails.
WorkerError(e) ==
  /\ Running(e)
  /\ inflight[e] # {}
  /\ FailWith(e, "States.TaskFailed")
  /\ TaskEnded(e)
  /\ log' = [log EXCEPT ![e] = Append(@, InvocationFailed(e, "States.TaskFailed"))]
  /\ UNCHANGED <<trig, sh, cr, doc, pc, ctx, elapsed, payloadStore>>

\* Variant: a timeout is caught and handled like a failed status check.
WorkerTimeoutCaught(e) ==
  /\ Running(e)
  /\ inflight[e] # {}
  /\ elapsed[e] + TaskTimeout(pc[e]) <= StateMachineTimeout
  /\ elapsed' = [elapsed EXCEPT ![e] = @ + TaskTimeout(pc[e])]
  /\ GoTo(e, failureState, ctx[e])
  /\ TaskEnded(e)
  /\ log' = [log EXCEPT ![e] = @ \o <<InvocationFailed(e, "Sandbox.Timedout"),
                                      Entered(failureState)>>]
  /\ UNCHANGED <<trig, sh, cr, doc, status, error, payloadStore>>

\* The function runs into its configured timeout.
WorkerTimeout(e) ==
  /\ Running(e)
  /\ inflight[e] # {}
  /\ elapsed[e] + TaskTimeout(pc[e]) <= StateMachineTimeout
  /\ elapsed' = [elapsed EXCEPT ![e] = @ + TaskTimeout(pc[e])]
  /\ FailWith(e, "Sandbox.Timedout")
  /\ TaskEnded(e)
  /\ log' = [log EXCEPT ![e] = Append(@, InvocationFailed(e, "Sandbox.Timedout"))]
  /\ UNCHANGED <<trig, sh, cr, doc, pc, ctx, payloadStore>>

\* The state machine's timeout ends the execution while a function runs.
ExecutionTimeout(e) ==
  /\ Running(e)
  /\ inflight[e] # {}
  /\ elapsed[e] + TaskTimeout(pc[e]) > StateMachineTimeout
  /\ elapsed' = [elapsed EXCEPT ![e] = StateMachineTimeout]
  /\ FailWith(e, "States.Timeout")
  /\ TaskEnded(e)
  /\ UNCHANGED <<trig, sh, cr, doc, pc, ctx, log, payloadStore>>

\* StopExecution by an operator while a function runs.
StopExecution(e) ==
  /\ Running(e)
  /\ inflight[e] # {}
  /\ status' = [status EXCEPT ![e] = "Cancelled"]
  /\ TaskEnded(e)
  /\ UNCHANGED <<trig, sh, cr, doc, error, pc, ctx, elapsed, log, payloadStore>>

\* Variant: a Pass state whose parameters do not resolve hands its input on
\* unchanged.
PassStepLenient(e) ==
  /\ Running(e)
  /\ pc[e] \in PassStates
  /\ GoTo(e, definition(pc[e]),
          IF ParametersResolve(pc[e], ctx[e]) THEN PassResult(pc[e], ctx[e]) ELSE ctx[e])
  /\ log' = [log EXCEPT ![e] = Append(@, Entered(definition(pc[e])))]
  /\ UNCHANGED <<trig, sh, cr, doc, status, error, inflight, elapsed, payloadStore, retries>>

PassStep(e) ==
  /\ Running(e)
  /\ pc[e] \in PassStates
  /\ ParametersResolve(pc[e], ctx[e])
  /\ GoTo(e, definition(pc[e]), PassResult(pc[e], ctx[e]))
  /\ log' = [log EXCEPT ![e] = Append(@, Entered(definition(pc[e])))]
  /\ UNCHANGED <<trig, sh, cr, doc, status, error, inflight, elapsed, payloadStore, retries>>

ChoiceStep(e) ==
  /\ Running(e)
  /\ pc[e] \in ChoiceStates
  /\ ChoiceResolves(pc[e], ctx[e])
  /\ GoTo(e, ChoiceNext(pc[e], ctx[e]), ctx[e])
  /\ log' = [log EXCEPT ![e] = Append(@, Entered(ChoiceNext(pc[e], ctx[e])))]
  /\ UNCHANGED <<trig, sh, cr, doc, status, error, inflight, elapsed, payloadStore, retries>>

\* Variant: only a Choice variable that does not resolve ends the execution.
PathFailsChoiceOnly(s, in) == s \in ChoiceStates /\ ~ChoiceResolves(s, in)

\* A path of a state's parameters, payload or Choice variable does not
\* resolve in the state's input.
PathFails(s, in) ==
  \/ s \in PassStates \cup TaskStates /\ ~ParametersResolve(s, in)
  \/ s \in ChoiceStates /\ ~ChoiceResolves(s, in)

RuntimeFailure(e) ==
  /\ Running(e)
  /\ inflight[e] = {}
  /\ PathFails(pc[e], ctx[e])
  /\ FailWith(e, "States.Runtime")
  /\ UNCHANGED <<trig, sh, cr, doc, pc, ctx, inflight, elapsed, log, payloadStore, retries>>

ProcessingSucceeded(e) ==
  /\ Running(e)
  /\ pc[e] = successState
  /\ status' = [status EXCEPT ![e] = "Succeeded"]
  /\ UNCHANGED <<trig, sh, cr, doc, error, pc, ctx, inflight, elapsed, log, payloadStore, retries>>

ProcessingFailed(e) ==
  /\ Running(e)
  /\ pc[e] = failureState
  /\ FailWith(e, "DocumentProcessingError")
  /\ UNCHANGED <<trig, sh, cr, doc, pc, ctx, inflight, elapsed, log, payloadStore, retries>>

\* The steps the state machine and the functions take on their own.
Progress(e) ==
  \/ InvokeLambda(e)
  \/ WorkerReturn(e)
  \/ PutObject(e)
  \/ StoreReturn(e)
  \/ RetrieveReturn(e)
  \/ WorkerTimeout(e)
  \/ ExecutionTimeout(e)
  \/ PassStep(e)
  \/ ChoiceStep(e)
  \/ RuntimeFailure(e)
  \/ ProcessingSucceeded(e)
  \/ ProcessingFailed(e)

Next ==
  \/ \E e \in Execs : StartExecution(e)
  \/ \E e \in Execs : InvokeLambda(e)
  \/ \E e \in Execs : WorkerReturn(e)
  \/ \E e \in Execs : PutObject(e)
  \/ \E e \in Execs : StoreReturn(e)
  \/ \E e \in Execs : RetrieveReturn(e)
  \/ \E e \in Execs : ServiceException(e)
  \/ \E e \in Execs : WorkerError(e)
  \/ \E e \in Execs : WorkerTimeout(e)
  \/ \E e \in Execs : ExecutionTimeout(e)
  \/ \E e \in Execs : StopExecution(e)
  \/ \E e \in Execs : PassStep(e)
  \/ \E e \in Execs : ChoiceStep(e)
  \/ \E e \in Execs : RuntimeFailure(e)
  \/ \E e \in Execs : ProcessingSucceeded(e)
  \/ \E e \in Execs : ProcessingFailed(e)

Spec == Init /\ [][Next]_vars

SpecConc == InitConc /\ [][Next]_vars

\* A running execution keeps taking steps: the service advances the state
\* machine, and an invocation returns, fails or times out.
FairSpec == Spec /\ \A e \in Execs : WF_vars(Progress(e))

\* ------------------------------------------------------- reading the log
Events(e) == 1 .. Len(log[e])

IsCall(e, i, w) == log[e][i].ev = "call" /\ log[e][i].worker = w
IsReturn(e, i, w) == log[e][i].ev = "return" /\ log[e][i].worker = w

Called(e, w) == \E i \in Events(e) : IsCall(e, i, w)
Returned(e, w) == \E i \in Events(e) : IsReturn(e, i, w)

\* Worker w of execution e has returned a result with status code c.
ReturnedStatus(e, w, c) ==
  \E i \in Events(e) :
     /\ IsReturn(e, i, w)
     /\ Has(log[e][i].output, "statusCode")
     /\ log[e][i].output.statusCode = c

\* Worker w of execution e has returned a result that is not a success.
ReturnedFailure(e, w) ==
  \E i \in Events(e) :
     /\ IsReturn(e, i, w)
     /\ ~(Has(log[e][i].output, "statusCode") /\ log[e][i].output.statusCode = 200)

\* Worker w has returned status 200 with a body of n characters.
ReturnedBody(e, w, n) ==
  \E i \in Events(e) :
     /\ IsReturn(e, i, w)
     /\ Has(log[e][i].output, "statusCode") /\ log[e][i].output.statusCode = 200
     /\ Has(log[e][i].output, "body") /\ log[e][i].output.body.len = n

StateEntered(e, s) ==
  \E i \in Events(e) : log[e][i].ev = "enter" /\ log[e][i].state = s

\* The workers of the stage invocations of execution e, in order.
StageCalls(e) ==
  LET cs == SelectSeq(log[e], LAMBDA x : x.ev = "call" /\ x.worker \in StageWorkers)
  IN [i \in 1 .. Len(cs) |-> cs[i].worker]

\* The errors that come from a function or the clock, not from the pipeline.
InfrastructureErrors ==
  {"States.TaskFailed", "Sandbox.Timedout", "States.Timeout", "Lambda.ServiceException"}

\* ------------------------------------------------------------------ claims
\* The body of the state's input is over the threshold of 204800 characters.
OverThreshold(in) == Has(in, "body") /\ in.body.len > ThresholdChars

\* C1: at both size checks, a result whose body has at most 204800
\* characters takes the inline branch and no store task, a result whose body
\* has more than 204800 characters takes the store branch; the branch
\* depends on the length of the body only.
C1_SizeGuardByLength ==
  \A e \in Execs :
     Running(e) =>
       /\ pc[e] \in {"StoreTextractResult", "StoreMetadataResult"} => OverThreshold(ctx[e])
       /\ pc[e] \in {"ExtractProcessedKey", "ExtractMetadataForBedrock"} => ~OverThreshold(ctx[e])

\* C2: after any stage worker has returned a status code other than 200, no
\* function is invoked any more, the only states entered are the status
\* check and the Fail state, and the execution does not succeed.
C2_FailureStopsPipeline ==
  \A e \in Execs : \A i \in Events(e) :
     ( /\ log[e][i].ev = "return"
       /\ log[e][i].worker \in StageWorkers
       /\ Has(log[e][i].output, "statusCode")
       /\ log[e][i].output.statusCode # 200 )
     => /\ status[e] # "Succeeded"
        /\ \A j \in Events(e) :
              j > i => /\ log[e][j].ev = "enter"
                       /\ log[e][j].state \in ChoiceStates \cup {failureState}

\* Scenario A: the Extractor has returned 200 with a body of SmallLen
\* characters and the MetadataExtractor 200 with a well-formed result whose
\* body is under the threshold.
ScenarioA(e) ==
  /\ ReturnedBody(e, "Extractor", SmallLen)
  /\ \E i \in Events(e) :
        /\ IsReturn(e, i, "MetadataExtractor")
        /\ log[e][i].output \in
             {[statusCode |-> 200, body |-> b, metadata |-> MetaFull(e)] :
                 b \in {Body(Quote, SmallLen), Body(Brace, SmallLen)}}

\* C3: in scenario A no store task runs, both size checks take the inline
\* branch, the Captioner and then the Ingestor are invoked, and the
\* execution fails only if a function fails or the Captioner or Ingestor
\* returns a failure; with four 200 results it ends in Succeeded.
C3_ScenarioAInlineSucceeds ==
  \A e \in Execs :
     ScenarioA(e) =>
       /\ ~Called(e, "PayloadStore.put")
       /\ ~Called(e, "PayloadStore.get")
       /\ StateEntered(e, "ExtractProcessedKey")
       /\ status[e] = "Failed" =>
            \/ error[e] \in InfrastructureErrors
            \/ ReturnedFailure(e, "Captioner")
            \/ ReturnedFailure(e, "Ingestor")
       /\ status[e] = "Succeeded" =>
            StageCalls(e) = <<"Extractor", "MetadataExtractor", "Captioner", "Ingestor">>

\* C4: when the Extractor has returned 200 with a body of LargeLen
\* characters, the MetadataExtractor is invoked only after StoreTextractResult
\* has returned; if the MetadataExtractor then returns 500, neither the
\* Captioner nor the Ingestor is invoked and the execution ends in Failed.
C4_ScenarioBExternalizes ==
  \A e \in Execs :
     ReturnedBody(e, "Extractor", LargeLen) =>
       /\ Called(e, "MetadataExtractor") =>
            \E i, j \in Events(e) :
               /\ i < j
               /\ IsReturn(e, i, "PayloadStore.put")
               /\ log[e][i].state = "StoreTextractResult"
               /\ IsCall(e, j, "MetadataExtractor")
       /\ ReturnedStatus(e, "MetadataExtractor", 500) =>
            /\ ~Called(e, "Captioner")
            /\ ~Called(e, "Ingestor")
            /\ status[e] \in {"Running", "Failed"}

\* C5: the input of every invocation of the MetadataExtractor, the Captioner
\* and the Ingestor carries no body of a previous result and is within the
\* transport limit of 204800 characters.
C5_StageInputBounded ==
  \A e \in Execs : \A i \in Events(e) :
     ( /\ log[e][i].ev = "call"
       /\ log[e][i].worker \in {"MetadataExtractor", "Captioner", "Ingestor"} )
     => /\ ~CarriesBody(log[e][i].input)
        /\ SizeOf(log[e][i].input) <= ThresholdChars

\* An execution in which all three workers were invoked after results with
\* bodies over the threshold, on the inline and on the store branch.
C5_Witness ==
  \E e \in Execs :
     /\ Called(e, "Ingestor")
     /\ ReturnedBody(e, "Extractor", LargeLen)
     /\ ReturnedBody(e, "MetadataExtractor", LargeLen)
     /\ ReturnedBody(e, "Captioner", LargeLen)
     /\ StateEntered(e, "ExtractProcessedKey")
     /\ StateEntered(e, "StoreMetadataResult")

\* The variables of execution e.
ExecVars(e) ==
  <<status[e], error[e], pc[e], ctx[e], inflight[e], elapsed[e], log[e], retries[e]>>

\* C6: every started execution ends; it ends as Succeeded, Failed or
\* Cancelled, and an execution that has ended takes no further step.
C6_EveryExecutionEnds ==
  /\ \A e \in Execs : (status[e] = "Running") ~> (status[e] \in Terminal)
  /\ [][\A e \in Execs : status[e] \in Terminal => ExecVars(e)' = ExecVars(e)]_vars
  /\ [][\A e \in Execs : status'[e] # status[e] =>
           \/ status[e] = "NotStarted" /\ status'[e] = "Running"
           \/ status[e] = "Running" /\ status'[e] \in Terminal]_vars

\* An execution has ended in failure on the inline branch, at the Captioner's
\* payload.
C6_Witness ==
  \E e \in Execs :
     /\ status[e] = "Failed"
     /\ error[e] = "States.Runtime"
     /\ pc[e] = "GenerateImageDescriptionsNormal"

\* C7: once the Ingestor has returned, the execution ends in Succeeded if
\* the Ingestor's status code is 200 and in Failed otherwise, and no
\* execution succeeds without a 200 of the Ingestor.
C7_IngestorDecides ==
  \A e \in Execs :
     /\ status[e] = "Succeeded" => ReturnedStatus(e, "Ingestor", 200)
     /\ Returned(e, "Ingestor") /\ status[e] # "Running" =>
          status[e] = IF ReturnedStatus(e, "Ingestor", 200) THEN "Succeeded" ELSE "Failed"

\* The Ingestor has returned 500 and the execution has ended.
C7_Witness ==
  \E e \in Execs :
     /\ ReturnedStatus(e, "Ingestor", 500)
     /\ status[e] = "Failed"
     /\ error[e] = "DocumentProcessingError"

\* The results the stage workers of execution e have returned, in order.
StageOutputs(e) ==
  LET rs == SelectSeq(log[e], LAMBDA x : x.ev = "return" /\ x.worker \in StageWorkers)
  IN [i \in 1 .. Len(rs) |-> rs[i].output]

\* The states execution e has entered, in order.
Path(e) ==
  LET es == SelectSeq(log[e], LAMBDA x : x.ev = "enter")
  IN [i \in 1 .. Len(es) |-> es[i].state]

\* An execution that runs alone, with a payload bucket of its own, from state
\* s with input c, given the results `outs` of its stage workers: where it
\* gets to, with what input, along which path.
RECURSIVE Alone(_, _, _, _, _, _)
Alone(e, s, c, outs, st, path) ==
  IF s \in {successState, failureState} \/ PathFails(s, c)
  THEN [pc |-> s, ctx |-> c, path |-> path]
  ELSE IF s \in PassStates
  THEN Alone(e, definition(s), PassResult(s, c), outs, st, Append(path, definition(s)))
  ELSE IF s \in ChoiceStates
  THEN Alone(e, ChoiceNext(s, c), c, outs, st, Append(path, ChoiceNext(s, c)))
  ELSE IF TaskWorker(s) \in StageWorkers
  THEN IF outs = <<>>
       THEN [pc |-> s, ctx |-> c, path |-> path]
       ELSE Alone(e, definition(s), TaskOutput(s, Head(outs)), Tail(outs), st,
                  Append(path, definition(s)))
  ELSE IF TaskWorker(s) = "PayloadStore.put"
  THEN Alone(e, definition(s), PayloadUtilsStore(e, s, TaskInput(s, c)), outs,
             (PayloadKey(e, s) :> c) @@ st, Append(path, definition(s)))
  ELSE Alone(e, definition(s), RetrievePayload(st[c.payload_reference.key]), outs, st,
             Append(path, definition(s)))

RunsAlone(e) ==
  Alone(e, StartAt, [bucket |-> DocumentBucket, key |-> DocKey(e)],
        StageOutputs(e), EmptyObj, <<StartAt>>)

\* The execution waits for a stage worker or has ended by the pipeline.
AtStage(e) ==
  \/ status[e] = "Succeeded"
  \/ status[e] = "Failed" /\ error[e] \in {"DocumentProcessingError", "States.Runtime"}
  \/ status[e] = "Running" /\ pc[e] \in TaskStates /\ TaskWorker(pc[e]) \in StageWorkers

StageOrder == <<"Extractor", "MetadataExtractor", "Captioner", "Ingestor">>

IsPrefix(s, t) == Len(s) <= Len(t) /\ \A i \in 1 .. Len(s) : s[i] = t[i]

\* C9: the stage workers of an execution are invoked in the order Extractor,
\* MetadataExtractor, Captioner, Ingestor, each after the function invoked
\* before it has returned, and at most one invocation is in flight.
C9_StagesSequential ==
  \A e \in Execs :
     /\ IsPrefix(StageCalls(e), StageOrder)
     /\ Cardinality(inflight[e]) <= 1
     /\ \A i, j \in Events(e) :
           (i < j /\ log[e][i].ev = "call" /\ log[e][j].ev = "call") =>
              \E k \in Events(e) :
                 i < k /\ k < j /\ IsReturn(e, k, log[e][i].worker)

\* All four stage workers have been invoked.
C9_Witness == \E e \in Execs : StageCalls(e) = StageOrder

\* C10: when the MetadataExtractor is invoked with the key of a stored
\* Textract result, or RetrievePayload with a payload reference, the object
\* under that key is in the payload bucket.
C10_PutBeforeReference ==
  \A e \in Execs : \A i \in Events(e) :
     /\ ( IsCall(e, i, "MetadataExtractor") /\ StateEntered(e, "StoreTextractResult") )
        => log[e][i].input.processed_key \in DOMAIN payloadStore
     /\ IsCall(e, i, "PayloadStore.get")
        => log[e][i].input.payload_reference.key \in DOMAIN payloadStore

\* Both consumers of a reference have been invoked in one execution.
C10_Witness ==
  \E e \in Execs :
     /\ StateEntered(e, "StoreTextractResult")
     /\ Called(e, "MetadataExtractor")
     /\ Called(e, "PayloadStore.get")

\* The object a reference (bucket, key) denotes. payload-utils writes to the
\* payload bucket only; NoObject stands for a key without an object.
NoObject == [missing |-> TRUE]

GetObject(b, k) ==
  IF b = PayloadBucket /\ k \in DOMAIN payloadStore THEN payloadStore[k] ELSE NoObject

\* The payload the store task s of execution e was invoked with.
StoredPayload(e, s) ==
  LET i == CHOOSE j \in Events(e) : log[e][j].ev = "call" /\ log[e][j].state = s
  IN log[e][i].input.payload

\* C11: the reference handed on after a store task denotes the stored
\* payload: the bucket and key given to the MetadataExtractor after
\* StoreTextractResult, and the payload reference given to RetrievePayload
\* after StoreMetadataResult, read back exactly what was stored.
C11_ExternalizationRoundTrip ==
  \A e \in Execs : \A i \in Events(e) :
     /\ ( IsCall(e, i, "MetadataExtractor") /\ StateEntered(e, "StoreTextractResult") )
        => GetObject(log[e][i].input.processed_bucket, log[e][i].input.processed_key)
             = StoredPayload(e, "StoreTextractResult")
     /\ IsCall(e, i, "PayloadStore.get")
        => GetObject(log[e][i].input.payload_reference.bucket,
                     log[e][i].input.payload_reference.key)
             = StoredPayload(e, "StoreMetadataResult")

\* C12: on the inline branch after extraction, the processed_key the
\* MetadataExtractor is invoked with is the key the Extractor's result names.
C12_InlineKeyFromExtractor ==
  \A e \in Execs : \A i \in Events(e) :
     ( IsCall(e, i, "MetadataExtractor") /\ StateEntered(e, "ExtractProcessedKey") )
     => \E j \in Events(e) :
           /\ IsReturn(e, j, "Extractor")
           /\ Has(log[e][j].output, "processed_key")
              => log[e][i].input.processed_key = log[e][j].output.processed_key

\* The number of times task state s of execution e has invoked its function:
\* once when the state is run, and once more for each retry.
Invocations(e, s) ==
  Cardinality({i \in Events(e) : log[e][i].ev = "call" /\ log[e][i].state = s})
    + (IF pc[e] = s /\ inflight[e] # {} THEN retries[e] ELSE 0)

\* C13: within one execution every task state invokes its function at most
\* once, and every stage worker is invoked at most once.
C13_NothingRetried ==
  \A e \in Execs :
     /\ \A s \in TaskStates : Invocations(e, s) <= 1
     /\ \A w \in StageWorkers :
           Cardinality({i \in Events(e) : IsCall(e, i, w)}) <= 1

EndedByPipeline(e) ==
  \/ status[e] = "Succeeded"
  \/ status[e] = "Failed" /\ error[e] \in {"DocumentProcessingError", "States.Runtime"}

\* The way an execution ends that has got to state s: Succeeded in the
\* Succeed state, Failed in the Fail state or where a path does not resolve.
Outcome(s) == IF s = successState THEN "Succeeded" ELSE "Failed"

FailedByStage(e, w) ==
  /\ status[e] = "Failed"
  /\ pc[e] = failureState
  /\ \E i \in Events(e) :
        /\ IsReturn(e, i, w)
        /\ Has(log[e][i].output, "statusCode") /\ log[e][i].output.statusCode # 200
        /\ \A j \in Events(e) : j > i => log[e][j].ev = "enter"

\* C16: executions that have failed because different stage workers returned
\* a status code other than 200 have different recorded failures.
C16_CauseNamesStage ==
  \A e1, e2 \in Execs : \A w1, w2 \in {"Extractor", "MetadataExtractor", "Ingestor"} :
     (w1 # w2 /\ FailedByStage(e1, w1) /\ FailedByStage(e2, w2))
     => error[e1] # error[e2]

\* An invocation of worker w in execution e has ended with error err.
FailedWith(e, w, err) ==
  \E i \in Events(e) :
     log[e][i].ev = "fail" /\ log[e][i].worker = w /\ log[e][i].error = err

\* C17: when the Captioner has run into its timeout, the execution has ended
\* in Failed, the Ingestor is never invoked, and the recorded error is not
\* the one recorded for a status code other than 200.
C17_CaptionerTimeoutFails ==
  \A e \in Execs :
     FailedWith(e, "Captioner", "Sandbox.Timedout") =>
       /\ status[e] = "Failed"
       /\ ~Called(e, "Ingestor")
       /\ error[e] # "DocumentProcessingError"

\* The Captioner has timed out after the MetadataExtractor's result was
\* stored and read back.
C17_Witness ==
  \E e \in Execs :
     /\ FailedWith(e, "Captioner", "Sandbox.Timedout")
     /\ pc[e] = "GenerateImageDescriptionsLarge"
     /\ elapsed[e] >= ImageDescriptionTimeout

\* C18: when an invocation of the store or of the retrieve function has
\* failed, the execution has ended in Failed, nothing is invoked after the
\* failure, and the recorded error is not the one recorded for a status code
\* other than 200.
C18_StoreFailureFails ==
  \A e \in Execs : \A i \in Events(e) :
     ( log[e][i].ev = "fail" /\ log[e][i].worker \in StoreWorkers ) =>
       /\ status[e] = "Failed"
       /\ error[e] = log[e][i].error
       /\ error[e] # "DocumentProcessingError"
       /\ \A j \in Events(e) : j > i => log[e][j].ev # "call"

\* The get of RetrievePayload has failed in an execution that had stored
\* both results.
C18_Witness ==
  \E e \in Execs :
     /\ FailedWith(e, "PayloadStore.get", "States.TaskFailed")
     /\ Called(e, "MetadataExtractor")
     /\ StateEntered(e, "StoreTextractResult")

\* The fields of the result of stage worker w that the states between w and
\* the next stage worker read, and that next stage worker.
ProjectionReads(w) ==
  CASE w = "MetadataExtractor" ->
         RequiredPaths("ExtractMetadataForBedrock")
           \cup {<<"metadata", RetrievedFields[f]>> : f \in DOMAIN RetrievedFields}
    [] w = "Captioner" -> RequiredPaths("MapImageDescriptionFieldsLarge")

NextStage(w) ==
  CASE w = "MetadataExtractor" -> "Captioner"
    [] w = "Captioner" -> "Ingestor"

\* Result `out` of worker w has status 200 and lacks a field that is read.
Malformed(w, out) ==
  /\ Has(out, "statusCode") /\ out.statusCode = 200
  /\ \E p \in ProjectionReads(w) : ~PathExists(out, p)

\* C19: after a stage worker has returned status 200 with a result that
\* lacks a field the input of the next stage worker is built from, the next
\* stage worker is never invoked and the execution does not succeed: once no
\* invocation is left it has ended in Failed.
C19_MalformedOutputFails ==
  \A e \in Execs : \A i \in Events(e) :
     ( /\ log[e][i].ev = "return"
       /\ log[e][i].worker \in {"MetadataExtractor", "Captioner"}
       /\ Malformed(log[e][i].worker, log[e][i].output) )
     => /\ ~Called(e, NextStage(log[e][i].worker))
        /\ status[e] # "Succeeded"
        /\ (status[e] \in Terminal /\ status[e] # "Cancelled") => status[e] = "Failed"
        /\ (status[e] = "Failed" /\ error[e] \notin InfrastructureErrors)
              => error[e] = "States.Runtime"

\* The Captioner has returned 200 without the processed document's bucket
\* and key, and the execution has failed at the Ingestor's input.
C19_Witness ==
  \E e \in Execs :
     /\ \E i \in Events(e) :
           /\ IsReturn(e, i, "Captioner")
           /\ Malformed("Captioner", log[e][i].output)
     /\ status[e] = "Failed"
     /\ error[e] = "States.Runtime"
     /\ pc[e] = "MapImageDescriptionFieldsLarge"

\* The history of execution e: one entry for each task whose function has
\* returned, with the task and the status code of the result.
History(e) ==
  LET rs == SelectSeq(log[e], LAMBDA x : x.ev = "return")
  IN [i \in 1 .. Len(rs) |->
        [stage |-> rs[i].state,
         status_code |-> IF Has(rs[i].output, "statusCode") THEN rs[i].output.statusCode
                         ELSE IF Has(rs[i].output, "original_status_code")
                              THEN rs[i].output.original_status_code
                              ELSE 0]]

\* The number of task states execution e has run to their end.
TasksRun(e) ==
  Cardinality({i \in DOMAIN Path(e) : Path(e)[i] \in TaskStates})
    - (IF pc[e] \in TaskStates THEN 1 ELSE 0)

\* Both size checks took the inline branch / the store branch.
AllInline(e) ==
  StateEntered(e, "ExtractProcessedKey") /\ StateEntered(e, "ExtractMetadataForBedrock")

BothStored(e) ==
  StateEntered(e, "StoreTextractResult") /\ StateEntered(e, "StoreMetadataResult")

MaxRecords == 2

MaxDeliveries == 2

\* Object keys as they arrive in a notification: sequences of characters,
\* URL-encoded by the bucket.
EventKeys ==
  { <<"a">>,
    <<"a", "+", "b">>,
    <<"a", "%", "2", "B", "b">>,
    <<"%", "2", "5">>,
    <<"a", "%">> }

\* The character a two-digit escape stands for.
Unhex(h, l) ==
  CASE <<h, l>> = <<"2", "0">> -> " "
    [] <<h, l>> = <<"2", "5">> -> "%"
    [] <<h, l>> = <<"2", "B">> -> "+"
    [] OTHER -> "?"

\* urllib.parse.unquote_plus: a plus sign becomes a space, an escape the
\* character it stands for, everything else is kept.
RECURSIVE unquote_plus(_)
unquote_plus(k) ==
  IF k = <<>> THEN <<>>
  ELSE IF Len(k) >= 3 /\ k[1] = "%" /\ Unhex(k[2], k[3]) # "?"
       THEN <<Unhex(k[2], k[3])>> \o unquote_plus(SubSeq(k, 4, Len(k)))
  ELSE IF k[1] = "+" THEN <<" ">> \o unquote_plus(Tail(k))
  ELSE <<k[1]>> \o unquote_plus(Tail(k))

\* The notifications the bucket can deliver: one or more records, each
\* with the bucket's name and an object key.
S3Events ==
  UNION { [1..n -> [bucket : {DocumentBucket}, key : EventKeys]] : n \in 1..MaxRecords }

\* The input of the execution the handler starts for a record.
ExecutionInput(record) ==
  [bucket |-> record.bucket, key |-> unquote_plus(record.key)]

\* The bucket delivers a notification: the function is invoked with it.
ObjectCreated(event) ==
  /\ trig.pc \in {"idle", "returned", "raised"}
  /\ trig.deliveries < MaxDeliveries
  /\ trig' = [pc |-> "invoked", event |-> event, started |-> <<>>,
              deliveries |-> trig.deliveries + 1]
  /\ UNCHANGED <<sh, cr, pipelineVars>>

\* lambda_handler: reads the first record, starts one execution with its
\* bucket and decoded key, returns 200.
lambda_handler ==
  /\ trig.pc = "invoked"
  /\ LET record == trig.event[1]
     IN trig' = [trig EXCEPT !.pc = "returned",
                             !.started = Append(@, ExecutionInput(record))]
  /\ UNCHANGED <<sh, cr, pipelineVars>>

\* start_execution raises: the handler ends with the error, nothing started.
StartExecutionRaises ==
  /\ trig.pc = "invoked"
  /\ trig' = [trig EXCEPT !.pc = "raised"]
  /\ UNCHANGED <<sh, cr, pipelineVars>>

InitTrigger ==
  /\ InitExecs([e \in Execs |-> "none"])
  /\ trig = [pc |-> "idle", event |-> <<>>, started |-> <<>>, deliveries |-> 0]
  /\ sh = Off
  /\ cr = Off

NextTrigger ==
  \/ \E event \in S3Events : ObjectCreated(event)
  \/ lambda_handler
  \/ StartExecutionRaises

SpecTrigger == InitTrigger /\ [][NextTrigger]_vars

\* C21: when the trigger function has returned for a delivered
\* notification, it has started exactly one execution for each record of
\* the notification, with that record's bucket and key.
C21_OneExecutionPerRecord ==
  trig.pc = "returned" =>
    trig.started = [i \in 1..Len(trig.event) |-> ExecutionInput(trig.event[i])]

\* ---------------------------------------------------------------------
\* create-inference-profile.sh: creates the inference profile from the
\* command line and sets its ARN on the Bedrock functions.
\* ---------------------------------------------------------------------

\* The runs of the script in one behaviour.
MaxRuns == 2

\* The functions with 'Bedrock' in their name.
BedrockFunctions == <<"BedrockKnowledgeBaseFunction", "BedrockKnowledgeBaseInitFunction">>

ProfileArnVar == "CLAUDE_INFERENCE_PROFILE_ARN"

\* A profile named ClaudeInferenceProfile that exists before the first run;
\* the profiles the script creates are numbered from 1.
ExistingProfile == 0

\* The environments a function can have before the script runs: none, the
\* variables the stack sets, and those plus a profile ARN set earlier.
NoVariables == << >>

StackVariables == [v \in {"AUTO_CREATE_KNOWLEDGE_BASE"} |-> "true"]

\* jq '. + {"CLAUDE_INFERENCE_PROFILE_ARN": $ARN}'
WithProfileArn(env, arn) ==
  [v \in DOMAIN env \cup {ProfileArnVar} |-> IF v = ProfileArnVar THEN arn ELSE env[v]]

Environments ==
  {NoVariables, StackVariables, WithProfileArn(StackVariables, {ExistingProfile})}

\* What get-function-configuration gave: whether the call succeeded and the
\* variables it printed (none stands for null).
Unread == [ok |-> FALSE, vars |-> NoVariables]

\* The script starts: nothing read yet.
ScriptStarts(run, profiles, calls, env) ==
  [pc |-> "list-profiles", run |-> run, profiles |-> profiles, calls |-> calls,
   env |-> env, before |-> env, EXISTING_PROFILE |-> {}, PROFILE_ARN |-> {},
   todo |-> <<>>, ENV_VARS |-> Unread, updated |-> {}]

\* aws bedrock list-inference-profiles succeeds: the ARNs of the profiles
\* with the name are EXISTING_PROFILE; when there are any, nothing is created.
ListInferenceProfiles ==
  /\ sh.pc = "list-profiles"
  /\ sh' = [sh EXCEPT !.EXISTING_PROFILE = sh.profiles,
                      !.PROFILE_ARN = sh.profiles,
                      !.pc = IF sh.profiles # {} THEN "list-functions" ELSE "create"]
  /\ UNCHANGED <<trig, cr, pipelineVars>>

\* aws bedrock list-inference-profiles fails: EXISTING_PROFILE is empty.
ListInferenceProfilesFails ==
  /\ sh.pc = "list-profiles"
  /\ sh' = [sh EXCEPT !.EXISTING_PROFILE = {}, !.pc = "create"]
  /\ UNCHANGED <<trig, cr, pipelineVars>>

\* aws bedrock create-inference-profile succeeds: PROFILE_ARN is the new
\* profile's; the script waits for it and goes on whatever the wait says.
CreateInferenceProfile ==
  /\ sh.pc = "create"
  /\ LET new == Len(sh.calls) + 1
     IN sh' = [sh EXCEPT !.profiles = @ \cup {new},
                         !.calls = Append(@, [existed |-> sh.profiles # {}, created |-> TRUE]),
                         !.PROFILE_ARN = {new},
                         !.pc = "list-functions"]
  /\ UNCHANGED <<trig, cr, pipelineVars>>

\* aws bedrock create-inference-profile fails: exit 1.
CreateInferenceProfileFails ==
  /\ sh.pc = "create"
  /\ sh' = [sh EXCEPT !.calls = Append(@, [existed |-> sh.profiles # {}, created |-> FALSE]),
                      !.pc = "exit 1"]
  /\ UNCHANGED <<trig, cr, pipelineVars>>

\* aws lambda list-functions: the functions to update.
ListFunctions ==
  /\ sh.pc = "list-functions"
  /\ sh' = [sh EXCEPT !.todo = BedrockFunctions, !.pc = "get-configuration"]
  /\ UNCHANGED <<trig, cr, pipelineVars>>

\* aws lambda list-functions gives nothing: exit 0.
ListFunctionsEmpty ==
  /\ sh.pc = "list-functions"
  /\ sh' = [sh EXCEPT !.pc = "exit 0"]
  /\ UNCHANGED <<trig, cr, pipelineVars>>

\* aws lambda get-function-configuration for the next function: its
\* variables, null when it has none.
GetFunctionConfiguration ==
  /\ sh.pc = "get-configuration"
  /\ sh.todo # <<>>
  /\ LET env == sh.env[Head(sh.todo)]
     IN sh' = [sh EXCEPT !.ENV_VARS = [ok |-> TRUE, vars |-> env],
                         !.pc = "update-configuration"]
  /\ UNCHANGED <<trig, cr, pipelineVars>>

\* aws lambda get-function-configuration fails.
GetFunctionConfigurationFails ==
  /\ sh.pc = "get-configuration"
  /\ sh.todo # <<>>
  /\ sh' = [sh EXCEPT !.ENV_VARS = Unread, !.pc = "update-configuration"]
  /\ UNCHANGED <<trig, cr, pipelineVars>>

\* The environment the script sends for the function.
UpdatedEnvironment(ENV_VARS, PROFILE_ARN) ==
  IF ~ENV_VARS.ok \/ DOMAIN ENV_VARS.vars = {}
  THEN [v \in {ProfileArnVar} |-> PROFILE_ARN]
  ELSE WithProfileArn(ENV_VARS.vars, PROFILE_ARN)

\* aws lambda update-function-configuration succeeds: the function's
\* environment is the one sent; the loop goes to the next function.
UpdateFunctionConfiguration ==
  /\ sh.pc = "update-configuration"
  /\ LET f == Head(sh.todo)
     IN sh' = [sh EXCEPT !.env[f] = UpdatedEnvironment(sh.ENV_VARS, sh.PROFILE_ARN),
                         !.updated = @ \cup {f},
                         !.todo = Tail(@),
                         !.pc = IF Tail(sh.todo) = <<>> THEN "complete" ELSE "get-configuration"]
  /\ UNCHANGED <<trig, cr, pipelineVars>>

\* aws lambda update-function-configuration fails: the function is left as
\* it was; the loop goes to the next function.
UpdateFunctionConfigurationFails ==
  /\ sh.pc = "update-configuration"
  /\ sh' = [sh EXCEPT !.todo = Tail(@),
                      !.pc = IF Tail(sh.todo) = <<>> THEN "complete" ELSE "get-configuration"]
  /\ UNCHANGED <<trig, cr, pipelineVars>>

\* The script is run again.
RunScript ==
  /\ sh.pc \in {"complete", "exit 0", "exit 1"}
  /\ sh.run < MaxRuns
  /\ sh' = ScriptStarts(sh.run + 1, sh.profiles, sh.calls, sh.env)
  /\ UNCHANGED <<trig, cr, pipelineVars>>

InitScript ==
  /\ InitExecs([e \in Execs |-> "none"])
  /\ trig = Off
  /\ cr = Off
  /\ \E profiles \in {{}, {ExistingProfile}},
        env \in [{BedrockFunctions[i] : i \in DOMAIN BedrockFunctions} -> Environments] :
       sh = ScriptStarts(1, profiles, <<>>, env)

NextScript ==
  \/ ListInferenceProfiles
  \/ ListInferenceProfilesFails
  \/ CreateInferenceProfile
  \/ CreateInferenceProfileFails
  \/ ListFunctions
  \/ ListFunctionsEmpty
  \/ GetFunctionConfiguration
  \/ GetFunctionConfigurationFails
  \/ UpdateFunctionConfiguration
  \/ UpdateFunctionConfigurationFails
  \/ RunScript

SpecScript == InitScript /\ [][NextScript]_vars

\* C22: every function the script has updated in a run has the variables
\* it had when the run started, with the same values; only
\* CLAUDE_INFERENCE_PROFILE_ARN is added or changed.
C22_EnvironmentPreserved ==
  sh.pc # "off" =>
    \A f \in sh.updated :
       /\ DOMAIN sh.env[f] \ {ProfileArnVar} = DOMAIN sh.before[f] \ {ProfileArnVar}
       /\ \A v \in DOMAIN sh.before[f] \ {ProfileArnVar} : sh.env[f][v] = sh.before[f][v]

\* C23: the script calls create-inference-profile only when no profile
\* named ClaudeInferenceProfile exists; once the script is past the check
\* with a profile in existence it uses that profile's ARN; and however
\* often it runs it creates at most one profile.
C23_CreatesOnlyWhenAbsent ==
  sh.pc # "off" =>
    /\ \A i \in DOMAIN sh.calls : ~sh.calls[i].existed
    /\ Cardinality({i \in DOMAIN sh.calls : sh.calls[i].created}) <= 1
    /\ (sh.pc \in {"list-functions", "get-configuration", "update-configuration", "complete"}
          => sh.PROFILE_ARN \subseteq sh.profiles /\ sh.PROFILE_ARN # {})

\* ---------------------------------------------------------------------
\* CreateInferenceProfileFunction: the handler of the custom resource that
\* provides the inference profile ARN to the stack.
\* ---------------------------------------------------------------------

max_retries == 10

RequestTypes == {"Create", "Update", "Delete"}

\* What get_inference_profile can report for a profile.
ProfileStatuses == {"CREATING", "READY", "FAILED", "ERROR"}

\* The ARNs a response can carry: the default built from the region and
\* the profile name, that of a listed profile, that of the created one.
default_inference_profile_arn == "arn:default:ClaudeInferenceProfile"

ListedProfileArn == "arn:listed:ClaudeInferenceProfile"

CreatedProfileArn == "arn:created:ClaudeInferenceProfile"

\* The handler is invoked with a request; exists tells whether the account
\* has a profile named ClaudeInferenceProfile.
Invoked(request, exists) ==
  [pc |-> "invoked", request |-> request, exists |-> exists, sent |-> <<>>,
   listing |-> "none", create |-> "none", retries |-> 0, gets |-> 0,
   statuses |-> {}]

\* cfnresponse.send(event, context, status, response_data), after which the
\* handler returns.
Send(c, responseStatus, arn) ==
  [c EXCEPT !.sent = Append(@, [Status |-> responseStatus, InferenceProfileArn |-> arn]),
            !.pc = "returned"]

\* Reading the request, creating the client or building the ARNs raises:
\* the outer handler responds FAILED.
HandlerRaises ==
  /\ cr.pc = "invoked"
  /\ cr' = Send(cr, "FAILED", default_inference_profile_arn)
  /\ UNCHANGED <<trig, sh, pipelineVars>>

\* A variant of the Delete branch that returns without responding.
SkipDeletionNoResponse ==
  /\ cr.pc = "invoked"
  /\ cr.request = "Delete"
  /\ cr' = [cr EXCEPT !.pc = "returned"]
  /\ UNCHANGED <<trig, sh, pipelineVars>>

\* Delete: nothing is deleted, the handler responds SUCCESS.
SkipDeletion ==
  /\ cr.pc = "invoked"
  /\ cr.request = "Delete"
  /\ cr' = Send(cr, "SUCCESS", default_inference_profile_arn)
  /\ UNCHANGED <<trig, sh, pipelineVars>>

\* A variant of the listing that goes on to create a profile whether or
\* not one with the name is listed.
list_inference_profiles_unread ==
  /\ cr.pc = "invoked"
  /\ cr.request \in {"Create", "Update"}
  /\ cr' = [cr EXCEPT !.listing = IF cr.exists THEN "found" ELSE "empty",
                      !.pc = "create"]
  /\ UNCHANGED <<trig, sh, pipelineVars>>

\* Create or Update, list_inference_profiles returns: a listed profile with
\* the name is used and the handler responds SUCCESS with its ARN;
\* otherwise the handler goes on to create one.
list_inference_profiles ==
  /\ cr.pc = "invoked"
  /\ cr.request \in {"Create", "Update"}
  /\ cr' = IF cr.exists
           THEN Send([cr EXCEPT !.listing = "found"], "SUCCESS", ListedProfileArn)
           ELSE [cr EXCEPT !.listing = "empty", !.pc = "create"]
  /\ UNCHANGED <<trig, sh, pipelineVars>>

\* list_inference_profiles raises: SUCCESS with the default ARN.
list_inference_profiles_raises ==
  /\ cr.pc = "invoked"
  /\ cr.request \in {"Create", "Update"}
  /\ cr' = Send([cr EXCEPT !.listing = "raised"], "SUCCESS", default_inference_profile_arn)
  /\ UNCHANGED <<trig, sh, pipelineVars>>

\* create_inference_profile returns the new profile's ARN: the handler
\* starts polling its status.
create_inference_profile ==
  /\ cr.pc = "create"
  /\ cr' = [cr EXCEPT !.create = "returned", !.retries = 0, !.pc = "poll"]
  /\ UNCHANGED <<trig, sh, pipelineVars>>

\* A variant of the failed creation that responds FAILED.
create_inference_profile_fails ==
  /\ cr.pc = "create"
  /\ cr' = Send([cr EXCEPT !.create = "raised"], "FAILED", default_inference_profile_arn)
  /\ UNCHANGED <<trig, sh, pipelineVars>>

\* create_inference_profile raises: SUCCESS with the default ARN.
create_inference_profile_raises ==
  /\ cr.pc = "create"
  /\ cr' = Send([cr EXCEPT !.create = "raised"], "SUCCESS", default_inference_profile_arn)
  /\ UNCHANGED <<trig, sh, pipelineVars>>

\* The end of an iteration that did not break: retries += 1; when the loop
\* condition no longer holds the handler responds SUCCESS with the created
\* profile's ARN.
NextIteration(c) ==
  LET d == [c EXCEPT !.retries = @ + 1]
  IN IF d.retries < max_retries THEN d ELSE Send(d, "SUCCESS", CreatedProfileArn)

\* get_inference_profile reports a status: READY leaves the loop, and the
\* handler responds SUCCESS with the created profile's ARN; FAILED and ERROR
\* raise inside the loop's try, whose except clause sleeps and counts the
\* retry; any other status sleeps and counts the retry.
get_inference_profile(profileStatus) ==
  /\ cr.pc = "poll"
  /\ LET c == [cr EXCEPT !.gets = @ + 1, !.statuses = @ \cup {profileStatus}]
     IN cr' = IF profileStatus = "READY"
              THEN Send(c, "SUCCESS", CreatedProfileArn)
              ELSE NextIteration(c)
  /\ UNCHANGED <<trig, sh, pipelineVars>>

\* A variant of the failed status call that does not count the retry.
get_inference_profile_raises_uncounted ==
  /\ cr.pc = "poll"
  /\ cr' = [cr EXCEPT !.gets = @ + 1]
  /\ UNCHANGED <<trig, sh, pipelineVars>>

\* get_inference_profile raises: the except clause sleeps and counts the
\* retry.
get_inference_profile_raises ==
  /\ cr.pc = "poll"
  /\ cr' = NextIteration([cr EXCEPT !.gets = @ + 1])
  /\ UNCHANGED <<trig, sh, pipelineVars>>

InitHandler ==
  /\ InitExecs([e \in Execs |-> "none"])
  /\ trig = Off
  /\ sh = Off
  /\ \E request \in RequestTypes, exists \in BOOLEAN : cr = Invoked(request, exists)

NextHandler ==
  \/ HandlerRaises
  \/ SkipDeletion
  \/ list_inference_profiles
  \/ list_inference_profiles_raises
  \/ create_inference_profile
  \/ create_inference_profile_raises
  \/ \E profileStatus \in ProfileStatuses : get_inference_profile(profileStatus)
  \/ get_inference_profile_raises

SpecHandler == InitHandler /\ [][NextHandler]_vars

\* C24: the handler responds SUCCESS with the new profile's ARN only after
\* get_inference_profile has reported the profile READY.
C24_SuccessOnlyAfterReady ==
  cr.pc # "off" =>
    \A i \in DOMAIN cr.sent :
       cr.sent[i] = [Status |-> "SUCCESS", InferenceProfileArn |-> CreatedProfileArn]
         => "READY" \in cr.statuses

\* C25: on Create or Update, when the listing holds a profile named
\* ClaudeInferenceProfile the handler does not call
\* create_inference_profile and its response is SUCCESS with the listed
\* profile's ARN.
C25_ExistingProfileReused ==
  (cr.pc # "off" /\ cr.listing = "found") =>
    /\ cr.create = "none"
    /\ cr.gets = 0
    /\ cr.pc = "returned"
    /\ cr.sent = <<[Status |-> "SUCCESS", InferenceProfileArn |-> ListedProfileArn]>>

\* A listed profile has been reused on an Update.
C25_Witness ==
  /\ cr.pc = "returned"
  /\ cr.request = "Update"
  /\ cr.listing = "found"

\* C26: when listing or creating raises the response is SUCCESS with the
\* default ARN, and a FAILED response is sent only when no Bedrock call
\* was made.
C26_FallbackToDefault ==
  cr.pc # "off" =>
    /\ (cr.listing = "raised" \/ cr.create = "raised") =>
         cr.sent = <<[Status |-> "SUCCESS",
                      InferenceProfileArn |-> default_inference_profile_arn]>>
    /\ \A i \in DOMAIN cr.sent :
         cr.sent[i].Status = "FAILED" =>
           cr.listing = "none" /\ cr.create = "none" /\ cr.gets = 0

\* Creating the profile has raised and the handler has returned.
C26_Witness ==
  /\ cr.pc = "returned"
  /\ cr.listing = "empty"
  /\ cr.create = "raised"

\* C27: an invocation with RequestType Create, Update or Delete that has
\* returned has sent exactly one response, and none sends a second one.
C27_ExactlyOneResponse ==
  (cr.pc # "off" /\ cr.request \in RequestTypes) =>
    /\ Len(cr.sent) <= 1
    /\ cr.pc = "returned" => Len(cr.sent) = 1

\* The handler has returned from the polling loop without having seen the
\* profile READY, after status calls that raised.
C27_Witness ==
  /\ cr.pc = "returned"
  /\ cr.gets = max_retries
  /\ cr.statuses = {}
  /\ Len(cr.sent) = 1

\* C28: the handler makes at most 10 get_inference_profile calls, and
\* after the tenth it is no longer in the loop.
C28_PollingBounded ==
  cr.pc # "off" =>
    /\ cr.gets <= max_retries
    /\ cr.pc = "poll" => cr.gets < max_retries

\* Ten status calls have been made, with statuses and errors mixed.
C28_Witness ==
  /\ cr.gets = max_retries
  /\ cr.pc = "returned"
  /\ {"CREATING", "FAILED", "ERROR"} \subseteq cr.statuses

\* The sum of the configured timeouts of the task states on a path.
RECURSIVE PathBudget(_)
PathBudget(p) ==
  IF p = <<>> THEN 0
  ELSE (IF Head(p) \in TaskStates THEN TaskTimeout(Head(p)) ELSE 0) + PathBudget(Tail(p))

\* C29: on the path of every execution the configured timeouts of the
\* steps sum to at most the state-machine timeout, and no execution whose
\* steps each finished within their own timeout is ended by the
\* state-machine timeout.
C29_BudgetCoversPath ==
  \A e \in Execs :
     /\ PathBudget(Path(e)) <= StateMachineTimeout
     /\ error[e] # "States.Timeout"

\* C30: the Ingestor is invoked only in executions in which the Extractor
\* and the MetadataExtractor have both returned 200 before, and only after
\* the Captioner invocation has completed.
C30_IngestorAfterStages ==
  \A e \in Execs : \A i \in Events(e) :
     IsCall(e, i, "Ingestor") =>
        /\ \A w \in {"Extractor", "MetadataExtractor"} :
              \E j \in 1 .. (i - 1) :
                 /\ IsReturn(e, j, w)
                 /\ Has(log[e][j].output, "statusCode")
                 /\ log[e][j].output.statusCode = 200
        /\ \E j \in 1 .. (i - 1) : IsReturn(e, j, "Captioner")

\* The Ingestor has been invoked after a Captioner that returned a status
\* other than 200.
C30_Witness ==
  \E e \in Execs :
     /\ Called(e, "Ingestor")
     /\ ReturnedFailure(e, "Captioner")

====
